---- MODULE Spec2Model ----
(***************************************************************************)
(* miniplay.py: a one-second stereo PCM buffer is generated from the       *)
(* command line and written in an endless loop to the stdin of aplay(1).   *)
(*                                                                         *)
(* Strings of the program are sequences of one-character strings, so that  *)
(* startswith, split and indexing are computed as Python computes them.    *)
(* The character "NUL" stands for the byte '\0'.                           *)
(***************************************************************************)
EXTENDS Integers, Sequences, FiniteSets, TLC

VARIABLES
  argv,        \* sys.argv
  pc,          \* position of main in its code
  i,           \* index of the argument loop (0-based, as in the source)
  device,      \* -D
  format,      \* -f, None until given or inferred
  tune,        \* -T
  fmt,         \* (fmt, maxv, sbs) selected from format
  data,        \* the generated buffer, a sequence of bytes
  cmd,         \* the sink's command line
  sink,        \* the aplay process: "none", "running", "exited", "reaped"
  sink_code,   \* the exit status of aplay once it has exited
  sink_own,    \* aplay exited while its stdin was still open
  stdin,       \* p.stdin: "none", "open", "closed"
  written,     \* number of completed write(data) calls (saturates at MaxWrites)
  exit_code,   \* the local exit_code = p.wait()
  exc,         \* the exception that is propagating, NoExc when none
  intr_at,     \* the positions at which SIGINT was delivered, in order
  close_raised,\* p.stdin.close() has raised
  status,      \* exit status of the program, None while it runs
  b_rate, b_fmt, b_bitrate, b_bits, b_res, b_pc
               \* inputs and result of one call of get_data_for_bits

vars == <<argv, pc, i, device, format, tune, fmt, data, cmd, sink, sink_code,
          sink_own, stdin, written, exit_code, exc, intr_at, close_raised,
          status, b_rate, b_fmt, b_bitrate, b_bits, b_res, b_pc>>

mainvars == <<argv, pc, i, device, format, tune, fmt, data, cmd, sink,
              sink_code, sink_own, stdin, written, exit_code, exc, intr_at,
              close_raised, status>>

bitsvars == <<b_rate, b_fmt, b_bitrate, b_bits, b_res, b_pc>>

----------------------------------------------------------------------------
(* Bounds of the model.                                                    *)

\* rate of the model. The source sets rate = 48000 (line 53); the buffer is
\* rate * 2 * sbs bytes long and is part of every state, so the model runs
\* the same code on a shorter second.
rate == 48

\* bitrate the two call sites pass to get_data_for_bits. The source passes
\* 1200 (lines 131 and 134); scaled with rate.
BITRATE == 6

\* write(data) calls counted before the counter saturates.
MaxWrites == 1

\* SIGINT deliveries in one run.
MaxInterrupts == 2

\* Longest pattern drawn for a direct call of get_data_for_bits.
MaxBits == 3

\* Largest rate and bitrate drawn for a direct call of get_data_for_bits.
MaxBitsRate == 6

\* A direct call of get_data_for_bits is also made with the rate and the
\* bitrate of the source divided by Scale, which keeps the source's 40
\* frames per symbol.
Scale == 600

----------------------------------------------------------------------------
(* Program constants.                                                      *)

hz == 440

SRC_RATE == 48000

SRC_BITRATE == 1200

MAXV16 == 32767

MAXV32 == 2147483647

None == <<"None">>

NoExc == [type |-> "None", what |-> "", arg |-> <<>>]

----------------------------------------------------------------------------
(* String literals of the program.                                         *)

S_prog   == <<"m","i","n","i","p","l","a","y",".","p","y">>
S_dash   == <<"-">>
S_ddash  == <<"-","-">>
S_D      == <<"-","D">>
S_f      == <<"-","f">>
S_T      == <<"-","T">>
S_c      == <<"-","c">>
S_r      == <<"-","r">>
S_q      == <<"-","q">>
S_2      == <<"2">>
S_aplay  == <<"a","p","l","a","y">>
S_dmix   == <<"d","m","i","x">>
S_dmixc  == <<"d","m","i","x",":">>
S_S16_LE == <<"S","1","6","_","L","E">>
S_S16_BE == <<"S","1","6","_","B","E">>
S_S32_LE == <<"S","3","2","_","L","E">>
S_S32_BE == <<"S","3","2","_","B","E">>
S_sin    == <<"s","i","n">>
S_sine   == <<"s","i","n","e">>
S_sinlh  == <<"s","i","n","l","h">>
S_sinl   == <<"s","i","n","l">>
S_sinh   == <<"s","i","n","h">>
S_square == <<"s","q","u","a","r","e">>
S_bitsc  == <<"b","i","t","s",":">>
S_01     == <<"0","1">>

----------------------------------------------------------------------------
(* Python's string operations on sequences of characters.                  *)

\* x.startswith(prefix)
startswith(x, prefix) ==
  /\ Len(x) >= Len(prefix)
  /\ SubSeq(x, 1, Len(prefix)) = prefix

\* Index (1-based) of the first c in x, 0 when there is none.
RECURSIVE find(_, _, _)
find(x, c, from) ==
  IF from > Len(x) THEN 0
  ELSE IF x[from] = c THEN from
  ELSE find(x, c, from + 1)

\* Mutant of split1_tail: the slice starts at the separator.
split1_tail_from_sep(x, c) == SubSeq(x, find(x, c, 1), Len(x))

\* x.split(c, 1)[1]: what follows the first c (x holds a c where it is used).
split1_tail(x, c) == SubSeq(x, find(x, c, 1) + 1, Len(x))

\* str(n) of a natural number: its decimal digits.
Digit(d) == <<"0","1","2","3","4","5","6","7","8","9">>[d + 1]

RECURSIVE str(_)
str(n) == IF n < 10 THEN <<Digit(n)>> ELSE str(n \div 10) \o <<Digit(n % 10)>>

\* x * n: n copies of the string x.
Repeat(x, n) == [k \in 1..(Len(x) * n) |-> x[((k - 1) % Len(x)) + 1]]

\* ''.join(pieces) of a sequence of strings.
RECURSIVE join(_)
join(pieces) ==
  IF Len(pieces) = 0 THEN <<>>
  ELSE join(SubSeq(pieces, 1, Len(pieces) - 1)) \o pieces[Len(pieces)]

----------------------------------------------------------------------------
(* struct.pack / struct.unpack for the formats '<hh', '>hh', '<ll', '>ll'. *)

\* Byte k (0 = least significant) of the two's complement of v.
Byte(v, k) ==
  IF v >= 0 THEN (v \div (256 ^ k)) % 256
  ELSE 255 - (((-v - 1) \div (256 ^ k)) % 256)

\* Bytes of one item: code is "h" (2 bytes) or "l" (4 bytes), order "<" or ">".
ItemWidth(code) == IF code = "h" THEN 2 ELSE 4

PackItem(order, code, v) ==
  LET w == ItemWidth(code) IN
  [k \in 1..w |-> IF order = "<" THEN Byte(v, k - 1) ELSE Byte(v, w - k)]

\* struct.pack(f, l, r) for a format f = <<order, code, code>>.
pack(f, l, r) == PackItem(f[1], f[2], l) \o PackItem(f[1], f[3], r)

\* Value of w bytes b (least significant first) as a signed integer.
RECURSIVE Magnitude(_, _)
Magnitude(b, k) ==
  IF k = 0 THEN 0 ELSE b[k] + 256 * Magnitude(b, k - 1)

\* The bytes with the most significant first.
MsbFirst(order, b) ==
  IF order = ">" THEN b ELSE [k \in 1..Len(b) |-> b[Len(b) + 1 - k]]

\* Signed value of the item stored in bytes b: two's complement, computed
\* without leaving 32 bits.
UnpackItem(order, b) ==
  LET m == MsbFirst(order, b) IN
  IF m[1] < 128 THEN Magnitude(m, Len(m))
  ELSE - Magnitude([k \in 1..Len(m) |-> 255 - m[k]], Len(m)) - 1

\* struct.unpack(f, frame)
unpack(f, frame) ==
  LET w == ItemWidth(f[2]) IN
  << UnpackItem(f[1], SubSeq(frame, 1, w)),
     UnpackItem(f[1], SubSeq(frame, w + 1, 2 * w)) >>

----------------------------------------------------------------------------
(* math.sin in integer arithmetic.  SinMilli(k, n) approximates            *)
(* 1000 * sin(2 pi k / n) by Bhaskara's rational formula                   *)
(* sin(pi t) ~ 16 t (1 - t) / (5 - 4 t (1 - t)); the angle is reduced      *)
(* exactly.  Only the sign, the zeros and the bound |sin| <= 1 are exact.  *)

SinMilli(k, n) ==
  LET x2 == 2 * (k % n)
      a  == IF x2 <= n THEN x2 ELSE x2 - n
      q  == a * (n - a)
      p  == (16000 * q) \div (5 * n * n - 4 * q)
  IN IF x2 <= n THEN p ELSE -p

\* int(sin * maxv) with sin given in thousandths: truncated towards zero.
Amplitude(p, maxv) ==
  LET q == IF p < 0 THEN -p ELSE p
      v == q * (maxv \div 1000) + (q * (maxv % 1000)) \div 1000
  IN IF p < 0 THEN -v ELSE v

\* int(math.sin(i * m) * maxv) with m = math.pi * 2 * hz / rate
sin_full(idx, maxv) == Amplitude(SinMilli(hz * idx, rate), maxv)

\* int(math.sin(i * m / 4) * maxv)
sin_quarter(idx, maxv) == Amplitude(SinMilli(hz * idx, 4 * rate), maxv)

----------------------------------------------------------------------------
(* Exceptions.                                                             *)

Exc(type, what, arg) == [type |-> type, what |-> what, arg |-> arg]

UnknownFlag(arg) == Exc("RuntimeError", "Unknown flag", arg)
TooManyArgs      == Exc("RuntimeError", "Too many command-line arguments", <<>>)
UnknownFormat(f) == Exc("RuntimeError", "Unknown format", f)
UnknownTune(t)   == Exc("RuntimeError", "Unknown tune", t)
InvalidRate      == Exc("ValueError", "Invalid rate", <<>>)
TooManyBits      == Exc("ValueError", "Too many bits of data", <<>>)
ZeroDivision     == Exc("ZeroDivisionError", "modulo by zero", <<>>)
AssertionFailed  == Exc("AssertionError", "len(data)", <<>>)
PopenFailed      == Exc("OSError", "Popen", <<>>)
PipeError        == Exc("IOError", "Broken pipe", <<>>)
Interrupted      == Exc("KeyboardInterrupt", "", <<>>)

\* RuntimeError('%s failed with exit code %d' % (cmd, exit_code))
SinkFailure(c, code) ==
  Exc("RuntimeError", "failed with exit code", <<c, code>>)

----------------------------------------------------------------------------
(* The format table (lines 85-94).                                         *)

Format(code, maxv, sbs) == [fmt |-> code, maxv |-> maxv, sbs |-> sbs]

NoFormat == Format(<<>>, 0, 0)

\* The chain of comparisons of lines 85-94, in the order of the source:
\* the fourth test repeats the third, so its branch is never taken.
select_format(f) ==
  IF f = S_S16_LE THEN Format(<<"<","h","h">>, MAXV16, 2)
  ELSE IF f = S_S16_BE THEN Format(<<">","h","h">>, MAXV16, 2)
  ELSE IF f = S_S32_LE THEN Format(<<"<","l","l">>, MAXV32, 4)
  ELSE IF f = S_S32_LE THEN Format(<<">","l","l">>, MAXV32, 4)
  ELSE NoFormat

\* Mutant of infer_format: startswith('dmix') without the colon.
infer_format_any_dmix(f, dev) ==
  IF f # None THEN f
  ELSE IF dev = S_dmix \/ startswith(dev, S_dmix) THEN S_S32_LE
  ELSE S_S16_LE

\* Lines 78-83: the format when -f is not given.
infer_format(f, dev) ==
  IF f # None THEN f
  ELSE IF dev = S_dmix \/ startswith(dev, S_dmixc) THEN S_S32_LE
  ELSE S_S16_LE

----------------------------------------------------------------------------
(* get_data_for_bits (lines 96-106); r, f stand for the enclosing rate and *)
(* (fmt, maxv).  The result is the returned string or the exception.       *)

Returned(d) == [exc |-> NoExc, data |-> d]

Raised(e) == [exc |-> e, data |-> <<>>]

\* Mutant of is_high: only '0' is low.
is_high_but_zero(c) == c # "0"

\* bits[i % s] not in '0\0'
is_high(c) == c \notin {"0", "NUL"}

\* Mutant of bits_join: one slot short.
bits_join_short(f, bitrate, bits, rss) ==
  LET v01(high) == IF high THEN pack(f.fmt, f.maxv, f.maxv)
                   ELSE pack(f.fmt, -f.maxv, -f.maxv)
      s == Len(bits)
      piece(k) == Repeat(v01(is_high(bits[(k % s) + 1])), rss)
  IN join([k \in 1..(bitrate - 1) |-> piece(k - 1)])

\* ''.join(v01[bits[i % s] not in '0\0'] * rss for i in xrange(bitrate))
bits_join(f, bitrate, bits, rss) ==
  LET v01(high) == IF high THEN pack(f.fmt, f.maxv, f.maxv)
                   ELSE pack(f.fmt, -f.maxv, -f.maxv)
      s == Len(bits)
      piece(k) == Repeat(v01(is_high(bits[(k % s) + 1])), rss)
  IN join([k \in 1..bitrate |-> piece(k - 1)])

\* Mutant of get_data_for_bits: s >= bitrate is refused.
get_data_for_bits_ge(r, f, bitrate, bits) ==
  IF bitrate = 0 THEN Raised(ZeroDivision)
  ELSE IF r % bitrate # 0 THEN Raised(InvalidRate)
  ELSE IF Len(bits) >= bitrate THEN Raised(TooManyBits)
  ELSE IF Len(bits) = 0 THEN Raised(ZeroDivision)
  ELSE Returned(bits_join(f, bitrate, bits, r \div bitrate))

get_data_for_bits(r, f, bitrate, bits) ==
  IF bitrate = 0 THEN Raised(ZeroDivision)
  ELSE IF r % bitrate # 0 THEN Raised(InvalidRate)
  ELSE IF Len(bits) > bitrate THEN Raised(TooManyBits)
  ELSE IF Len(bits) = 0 THEN Raised(ZeroDivision)
  ELSE Returned(bits_join(f, bitrate, bits, r \div bitrate))

----------------------------------------------------------------------------
(* The tune dispatch (lines 108-136).                                      *)

\* ''.join(struct.pack(fmt, left[i], right[i]) for i in xrange(rate))
frames(f, left, right) ==
  join([k \in 1..rate |-> pack(f.fmt, left[k - 1], right[k - 1])])

generate(t, f) ==
  LET full    == [k \in 0..(rate - 1) |-> sin_full(k, f.maxv)]
      quarter == [k \in 0..(rate - 1) |-> sin_quarter(k, f.maxv)]
      zero    == [k \in 0..(rate - 1) |-> 0]
  IN
  IF t \in {S_sin, S_sine} THEN Returned(frames(f, full, full))
  ELSE IF t = S_sinlh THEN Returned(frames(f, quarter, full))
  ELSE IF t = S_sinl THEN Returned(frames(f, quarter, zero))
  ELSE IF t = S_sinh THEN Returned(frames(f, zero, full))
  ELSE IF t = S_square THEN get_data_for_bits(rate, f, BITRATE, S_01)
  ELSE IF startswith(t, S_bitsc)
    THEN get_data_for_bits(rate, f, BITRATE, split1_tail(t, ":"))
  ELSE Raised(UnknownTune(t))

\* assert len(data) == rate * sbs * 2
assert_len(d, f) == Len(d) = rate * f.sbs * 2

\* cmd (line 139)
command(dev, f) ==
  <<S_aplay, S_D, dev, S_f, f, S_c, S_2, S_r, str(rate), S_q>>

----------------------------------------------------------------------------
(* Command lines the program is started with.                              *)

S_dmix0   == S_dmixc \o <<"0">>
S_dmixer  == S_dmix \o <<"e","r">>
S_default == <<"d","e","f","a","u","l","t">>
S_U8      == <<"U","8">>
S_foo     == <<"f","o","o">>
S_x       == <<"x">>

Devices == {S_dmix, S_dmix0, S_dmixer, S_default}

FormatNames == {S_S16_LE, S_S16_BE, S_S32_LE, S_S32_BE}

\* A pattern of n symbols: 1 0 1 0 ...
Alternating(n) == [k \in 1..n |-> IF k % 2 = 1 THEN "1" ELSE "0"]

SineTunes == {S_sin, S_sine, S_sinlh, S_sinl, S_sinh}

GoodBitTunes == {S_bitsc \o S_01, S_bitsc \o Alternating(BITRATE)}

GoodTunes == SineTunes \cup {S_square} \cup GoodBitTunes

BadTunes == {S_foo, S_bitsc, S_bitsc \o Alternating(BITRATE + 1)}

\* What follows the options: nothing or "--" is accepted; "-" (the loop
\* stops without consuming it), an unknown flag, a flag without its value
\* and an argument after "--" are not.
GoodTails == {<<>>, <<S_ddash>>}

BadTails == {<<S_dash>>, <<S_x>>, <<S_D>>, <<S_ddash, S_x>>}

Option(flag, values) == {<<>>} \cup {<<flag, v>> : v \in values}

Argvs ==
  { <<S_prog>> \o d \o f \o t \o tail :
      d \in Option(S_D, Devices),
      f \in Option(S_f, FormatNames \cup {S_U8}),
      t \in Option(S_T, GoodTunes \cup BadTunes),
      tail \in GoodTails \cup BadTails }

ExitCodes == {0, 1}

----------------------------------------------------------------------------
(* Where a raised exception goes (the try statements of lines 141-155).    *)

\* Mutant of close_except: except OSError only.
close_except_oserror(e) == e.type = "OSError"

\* except (OSError, IOError) around p.stdin.close()
close_except(e) == e.type \in {"OSError", "IOError"}

\* Mutant of outer_except: the handler names another exception.
outer_except_systemexit(e) == e.type = "SystemExit"

\* except KeyboardInterrupt around the loop and its cleanup
outer_except(e) == e.type = "KeyboardInterrupt"

\* Position and pending exception after e is raised at position at while
\* pending is propagating.
raise(at, e, pending) ==
  IF at \in {"write", "flush"}
    THEN [pc |-> "close", exc |-> e]            \* the finally block runs
  ELSE IF at = "close" /\ close_except(e)
    THEN [pc |-> "wait", exc |-> pending]       \* except ...: pass
  ELSE IF at \in {"close", "wait", "after_finally"}
    THEN IF outer_except(e)
           THEN [pc |-> "return", exc |-> NoExc]
           ELSE [pc |-> "uncaught", exc |-> e]
  ELSE [pc |-> "uncaught", exc |-> e]           \* outside every try

----------------------------------------------------------------------------
(* The program.                                                            *)

BitsIdle ==
  /\ b_rate = 0 /\ b_fmt = NoFormat /\ b_bitrate = 0 /\ b_bits = <<>>
  /\ b_res = Raised(NoExc) /\ b_pc = "idle"

Init ==
  /\ argv \in Argvs
  /\ pc = "parse"
  /\ i = 1
  /\ device = S_dmix
  /\ format = None
  /\ tune = S_sinlh
  /\ fmt = NoFormat
  /\ data = <<>>
  /\ cmd = <<>>
  /\ sink = "none" /\ sink_code = 0 /\ sink_own = FALSE
  /\ stdin = "none"
  /\ written = 0
  /\ exit_code = 0
  /\ exc = NoExc
  /\ intr_at = <<>>
  /\ close_raised = FALSE
  /\ status = None
  /\ BitsIdle

\* One iteration of the argument loop (lines 58-75); argv[k] of the source
\* is argv[k + 1] here.
parse_step(av, k, dev, f, t) ==
  LET n    == Len(av)
      arg  == av[k + 1]
      k1   == k + 1
      same == [i |-> k, device |-> dev, format |-> f, tune |-> t,
               pc |-> "check_args", exc |-> NoExc]
  IN
  IF ~(k < n) THEN same
  ELSE IF arg = S_dash THEN same
  ELSE IF arg = S_ddash THEN [same EXCEPT !.i = k1]
  ELSE IF arg = S_D /\ k1 < n
    THEN [same EXCEPT !.i = k1 + 1, !.device = av[k1 + 1], !.pc = "parse"]
  ELSE IF arg = S_f /\ k1 < n
    THEN [same EXCEPT !.i = k1 + 1, !.format = av[k1 + 1], !.pc = "parse"]
  ELSE IF arg = S_T /\ k1 < n
    THEN [same EXCEPT !.i = k1 + 1, !.tune = av[k1 + 1], !.pc = "parse"]
  ELSE [same EXCEPT !.i = k1, !.pc = "uncaught", !.exc = UnknownFlag(arg)]

Parse ==
  /\ pc = "parse"
  /\ LET r == parse_step(argv, i, device, format, tune) IN
       /\ i' = r.i /\ device' = r.device /\ format' = r.format
       /\ tune' = r.tune /\ pc' = r.pc /\ exc' = r.exc
  /\ UNCHANGED <<argv, fmt, data, cmd, sink, sink_code, sink_own, stdin,
                 written, exit_code, intr_at, status, close_raised, bitsvars>>

\* Mutant of too_many: leftover arguments are not looked for.
too_many_never(av, k) == FALSE

\* if i != len(argv): raise (lines 76-77)
too_many(av, k) == k # Len(av)

CheckArgs ==
  /\ pc = "check_args"
  /\ IF too_many(argv, i)
       THEN pc' = "uncaught" /\ exc' = TooManyArgs
       ELSE pc' = "infer_format" /\ exc' = exc
  /\ UNCHANGED <<argv, i, device, format, tune, fmt, data, cmd, sink,
                 sink_code, sink_own, stdin, written, exit_code, intr_at,
                 status, close_raised, bitsvars>>

InferFormat ==
  /\ pc = "infer_format"
  /\ format' = infer_format(format, device)
  /\ pc' = "select_format"
  /\ UNCHANGED <<argv, i, device, tune, fmt, data, cmd, sink, sink_code,
                 sink_own, stdin, written, exit_code, exc, intr_at, status,
                 close_raised, bitsvars>>

SelectFormat ==
  /\ pc = "select_format"
  /\ LET f == select_format(format) IN
       IF f = NoFormat
         THEN pc' = "uncaught" /\ exc' = UnknownFormat(format) /\ fmt' = fmt
         ELSE pc' = "generate" /\ exc' = exc /\ fmt' = f
  /\ UNCHANGED <<argv, i, device, format, tune, data, cmd, sink, sink_code,
                 sink_own, stdin, written, exit_code, intr_at, status,
                 close_raised, bitsvars>>

Generate ==
  /\ pc = "generate"
  /\ LET r == generate(tune, fmt) IN
       IF r.exc = NoExc
         THEN pc' = "assert" /\ data' = r.data /\ exc' = exc
         ELSE pc' = "uncaught" /\ data' = data /\ exc' = r.exc
  /\ UNCHANGED <<argv, i, device, format, tune, fmt, cmd, sink, sink_code,
                 sink_own, stdin, written, exit_code, intr_at, status,
                 close_raised, bitsvars>>

AssertLen ==
  /\ pc = "assert"
  /\ IF assert_len(data, fmt)
       THEN pc' = "spawn" /\ exc' = exc
       ELSE pc' = "uncaught" /\ exc' = AssertionFailed
  /\ UNCHANGED <<argv, i, device, format, tune, fmt, data, cmd, sink,
                 sink_code, sink_own, stdin, written, exit_code, intr_at,
                 status, close_raised, bitsvars>>

\* cmd = (...); p = subprocess.Popen(cmd, stdin=subprocess.PIPE)
SpawnOk ==
  /\ pc = "spawn"
  /\ cmd' = command(device, format)
  /\ sink' = "running" /\ stdin' = "open"
  /\ pc' = "enter_try"
  /\ UNCHANGED <<argv, i, device, format, tune, fmt, data, sink_code,
                 sink_own, written, exit_code, exc, intr_at, status,
                 close_raised, bitsvars>>

\* Popen raises OSError (aplay cannot be executed): no process, no pipe.
SpawnFails ==
  /\ pc = "spawn"
  /\ cmd' = command(device, format)
  /\ LET r == raise(pc, PopenFailed, exc) IN pc' = r.pc /\ exc' = r.exc
  /\ UNCHANGED <<argv, i, device, format, tune, fmt, data, sink, sink_code,
                 sink_own, stdin, written, exit_code, intr_at, status,
                 close_raised, bitsvars>>

\* try: try: while 1:
EnterTry ==
  /\ pc = "enter_try"
  /\ pc' = "write"
  /\ UNCHANGED <<argv, i, device, format, tune, fmt, data, cmd, sink,
                 sink_code, sink_own, stdin, written, exit_code, exc,
                 intr_at, status, close_raised, bitsvars>>

\* p.stdin.write(data): the pipe takes the buffer while aplay runs, and the
\* write fails with EPIPE once aplay has exited.
Write ==
  /\ pc = "write"
  /\ IF sink = "running"
       THEN /\ written' = (IF written < MaxWrites THEN written + 1 ELSE written)
            /\ pc' = "flush" /\ exc' = exc
       ELSE /\ written' = written
            /\ LET r == raise(pc, PipeError, exc) IN pc' = r.pc /\ exc' = r.exc
  /\ UNCHANGED <<argv, i, device, format, tune, fmt, data, cmd, sink,
                 sink_code, sink_own, stdin, exit_code, intr_at, status,
                 close_raised, bitsvars>>

\* p.stdin.flush()
Flush ==
  /\ pc = "flush"
  /\ IF sink = "running"
       THEN pc' = "write" /\ exc' = exc
       ELSE LET r == raise(pc, PipeError, exc) IN pc' = r.pc /\ exc' = r.exc
  /\ UNCHANGED <<argv, i, device, format, tune, fmt, data, cmd, sink,
                 sink_code, sink_own, stdin, written, exit_code, intr_at,
                 status, close_raised, bitsvars>>

\* p.stdin.close() returns.
CloseOk ==
  /\ pc = "close"
  /\ stdin' = "closed"
  /\ pc' = "wait"
  /\ UNCHANGED <<argv, i, device, format, tune, fmt, data, cmd, sink,
                 sink_code, sink_own, written, exit_code, exc, intr_at,
                 status, close_raised, bitsvars>>

\* p.stdin.close() raises IOError; the descriptor is closed all the same.
CloseFails ==
  /\ pc = "close"
  /\ stdin' = "closed"
  /\ close_raised' = TRUE
  /\ LET r == raise(pc, PipeError, exc) IN pc' = r.pc /\ exc' = r.exc
  /\ UNCHANGED <<argv, i, device, format, tune, fmt, data, cmd, sink,
                 sink_code, sink_own, written, exit_code, intr_at, status,
                 bitsvars>>

\* exit_code = p.wait(): returns once aplay has exited.
Wait ==
  /\ pc = "wait"
  /\ sink = "exited"
  /\ sink' = "reaped"
  /\ exit_code' = sink_code
  /\ pc' = "after_finally"
  /\ UNCHANGED <<argv, i, device, format, tune, fmt, data, cmd, sink_code,
                 sink_own, stdin, written, exc, intr_at, status, close_raised, bitsvars>>

\* The end of the finally block re-raises what is propagating; lines
\* 152-153 run only when nothing is.
AfterFinally ==
  /\ pc = "after_finally"
  /\ IF exc # NoExc
       THEN LET r == raise(pc, exc, NoExc) IN pc' = r.pc /\ exc' = r.exc
       ELSE IF exit_code # 0
         THEN LET r == raise(pc, SinkFailure(cmd, exit_code), NoExc)
              IN pc' = r.pc /\ exc' = r.exc
         ELSE pc' = "return" /\ exc' = exc
  /\ UNCHANGED <<argv, i, device, format, tune, fmt, data, cmd, sink,
                 sink_code, sink_own, stdin, written, exit_code, intr_at,
                 status, close_raised, bitsvars>>

\* sys.exit(main(sys.argv)): status 0 when main returns (None), 1 when an
\* exception leaves it.
Exit ==
  /\ pc \in {"return", "uncaught"}
  /\ status' = (IF pc = "return" THEN 0 ELSE 1)
  /\ pc' = "exited"
  /\ UNCHANGED <<argv, i, device, format, tune, fmt, data, cmd, sink,
                 sink_code, sink_own, stdin, written, exit_code, exc,
                 intr_at, close_raised, bitsvars>>

----------------------------------------------------------------------------
(* The environment.                                                        *)

Interruptible ==
  {"parse", "check_args", "infer_format", "select_format", "generate",
   "assert", "spawn", "enter_try", "write", "flush", "close", "wait",
   "after_finally", "return"}

\* SIGINT: KeyboardInterrupt is raised at the current position.
Interrupt ==
  /\ pc \in Interruptible
  /\ Len(intr_at) < MaxInterrupts
  /\ intr_at' = Append(intr_at, pc)
  /\ LET r == raise(pc, Interrupted, exc) IN pc' = r.pc /\ exc' = r.exc
  /\ UNCHANGED <<argv, i, device, format, tune, fmt, data, cmd, sink,
                 sink_code, sink_own, stdin, written, exit_code, status,
                 close_raised, bitsvars>>

\* aplay exits, on its own or after the end of its input.
SinkExits ==
  /\ sink = "running"
  /\ pc \in {"enter_try", "write", "flush", "close", "wait"}
  /\ \E c \in ExitCodes : sink_code' = c
  /\ sink' = "exited"
  /\ sink_own' = (stdin = "open")
  /\ UNCHANGED <<argv, pc, i, device, format, tune, fmt, data, cmd, stdin,
                 written, exit_code, exc, intr_at, status, close_raised, bitsvars>>

Next ==
  \/ Parse \/ CheckArgs \/ InferFormat \/ SelectFormat \/ Generate
  \/ AssertLen \/ SpawnOk \/ SpawnFails \/ EnterTry \/ Write \/ Flush
  \/ CloseOk \/ CloseFails \/ Wait \/ AfterFinally \/ Exit
  \/ Interrupt \/ SinkExits

Spec == Init /\ [][Next]_vars

----------------------------------------------------------------------------
(* get_data_for_bits called on its own: the enclosing rate and format and  *)
(* the arguments are drawn from bounded sets.                              *)

\* The (fmt, maxv, sbs) the format table can select.
Formats == {select_format(n) : n \in FormatNames} \ {NoFormat}

BitChars == {"0", "1", "NUL", "x"}

\* The strings over BitChars of length n.
RECURSIVE Patterns(_)
Patterns(n) ==
  IF n = 0 THEN {<<>>}
  ELSE {Append(x, c) : x \in Patterns(n - 1), c \in BitChars}

PatternsUpTo(n) == UNION {Patterns(k) : k \in 0..n}

RatePairs ==
  ((1..MaxBitsRate) \X (1..MaxBitsRate))
    \cup {<<SRC_RATE \div Scale, SRC_BITRATE \div Scale>>}

MainIdle ==
  /\ argv = <<S_prog>> /\ pc = "none" /\ i = 1 /\ device = S_dmix
  /\ format = None /\ tune = S_sinlh /\ fmt = NoFormat /\ data = <<>>
  /\ cmd = <<>> /\ sink = "none" /\ sink_code = 0 /\ sink_own = FALSE
  /\ stdin = "none" /\ written = 0 /\ exit_code = 0 /\ exc = NoExc
  /\ intr_at = <<>> /\ close_raised = FALSE /\ status = None

InitBits ==
  /\ MainIdle
  /\ \E rb \in RatePairs : b_rate = rb[1] /\ b_bitrate = rb[2]
  /\ b_fmt \in Formats
  /\ b_bits \in PatternsUpTo(MaxBits)
  /\ b_res = Raised(NoExc)
  /\ b_pc = "call"

CallBits ==
  /\ b_pc = "call"
  /\ b_res' = get_data_for_bits(b_rate, b_fmt, b_bitrate, b_bits)
  /\ b_pc' = "done"
  /\ UNCHANGED <<mainvars, b_rate, b_fmt, b_bitrate, b_bits>>

NextBits == CallBits

SpecBits == InitBits /\ [][NextBits]_vars

----------------------------------------------------------------------------
(* What the command line asks for, read off argv without running the       *)
(* program: every option is given at most once, before the tail.           *)

HasArg(v) == \E k \in 2..Len(argv) : argv[k] = v

\* The argument that follows the flag.
ArgOf(flag) == argv[(CHOOSE k \in 2..Len(argv) : argv[k - 1] = flag)]

HasOption(flag) == \E k \in 2..(Len(argv) - 1) : argv[k] = flag

LastArg == argv[Len(argv)]

AskedDevice == IF HasOption(S_D) THEN ArgOf(S_D) ELSE S_dmix

\* "dmix" itself and the names that begin with "dmix:".
IsDmix(d) ==
  \/ d = <<"d","m","i","x">>
  \/ Len(d) >= 5 /\ SubSeq(d, 1, 5) = <<"d","m","i","x",":">>

BadTail == Len(argv) > 1 /\ LastArg \in {S_dash, S_x, S_D}

BadInput == BadTail \/ HasArg(S_U8) \/ \E t \in BadTunes : HasArg(t)

\* Frame n (from 0) of a buffer of frames of w bytes.
FrameOf(d, n, w) == SubSeq(d, n * w + 1, (n + 1) * w)

----------------------------------------------------------------------------
(* Claims.                                                                 *)

\* C1: when aplay exits on its own with a non-zero status while the loop is
\* running and no interrupt was delivered, the run ends with the
\* RuntimeError of line 153, which carries cmd and the exit code.
C1_SinkFailureRaised ==
  (pc = "exited" /\ intr_at = <<>> /\ sink = "reaped" /\ sink_own
     /\ sink_code # 0)
  => /\ exc.type = "RuntimeError"
     /\ exc.what = "failed with exit code"
     /\ exc.arg = <<cmd, sink_code>>

\* C2: when the one interrupt of a run is delivered while the loop is at
\* write or flush, the program ends with status 0 whatever the exit status
\* of aplay, and by then p.stdin is closed and aplay has been waited for.
C2_InterruptExitsZero ==
  (pc = "exited" /\ Len(intr_at) = 1 /\ intr_at[1] \in {"write", "flush"})
  => /\ status = 0
     /\ stdin = "closed"
     /\ sink = "reaped"
     /\ exit_code = sink_code

C2_Witness ==
  /\ pc = "exited" /\ intr_at = <<"flush">> /\ status = 0
  /\ stdin = "closed" /\ sink = "reaped" /\ exit_code = 1

C4_Encoding(f) ==
  IF f = S_S16_LE THEN Format(<<"<","h","h">>, 32767, 2)
  ELSE IF f = S_S16_BE THEN Format(<<">","h","h">>, 32767, 2)
  ELSE IF f = S_S32_LE THEN Format(<<"<","l","l">>, 2147483647, 4)
  ELSE Format(<<">","l","l">>, 2147483647, 4)

C4_FourFormatsAccepted ==
  /\ exc.what = "Unknown format" => format \notin FormatNames
  /\ fmt # NoFormat => (format \in FormatNames /\ fmt = C4_Encoding(format))

\* C5: the buffer that comes out of the generation, for every tune and
\* format that get that far, is rate * 2 * sbs bytes long with sbs 2 or 4,
\* and no buffer of another length is ever at the playback loop.
C5_BufferLength ==
  /\ pc = "assert" => (fmt.sbs \in {2, 4} /\ Len(data) = rate * 2 * fmt.sbs)
  /\ pc \in {"enter_try", "write", "flush"} => Len(data) = rate * 2 * fmt.sbs

C5_Witness ==
  /\ pc = "assert" /\ tune = S_sinl /\ fmt.sbs = 4 /\ Len(data) = rate * 8

\* C6: for a pattern of s symbols, 1 <= s <= bitrate, and a rate that is a
\* multiple of bitrate, the buffer is bitrate slots of rate / bitrate equal
\* frames; the frames of slot k decode to (-maxv, -maxv) when symbol k mod s
\* is '0' or NUL and to (maxv, maxv) otherwise.
C6_BitPatternFrames ==
  (b_pc = "done" /\ Len(b_bits) >= 1 /\ Len(b_bits) <= b_bitrate
     /\ b_rate % b_bitrate = 0)
  => LET rss == b_rate \div b_bitrate
         w   == 2 * b_fmt.sbs
         s   == Len(b_bits)
         m   == b_fmt.maxv
     IN /\ b_res.exc = NoExc
        /\ Len(b_res.data) = b_bitrate * rss * w
        /\ \A k \in 0..(b_bitrate - 1) : \A j \in 0..(rss - 1) :
             unpack(b_fmt.fmt, FrameOf(b_res.data, k * rss + j, w))
               = IF b_bits[(k % s) + 1] \in {"0", "NUL"}
                   THEN <<-m, -m>> ELSE <<m, m>>

\* Pattern "01" at 40 frames per symbol: 40 low frames, then 40 high ones.
C6_Witness ==
  /\ b_pc = "done" /\ b_bits = <<"0", "1">> /\ b_rate = 40 * b_bitrate
  /\ b_res.exc = NoExc
  /\ \A j \in 0..39 :
       /\ unpack(b_fmt.fmt, FrameOf(b_res.data, j, 2 * b_fmt.sbs))
            = <<-b_fmt.maxv, -b_fmt.maxv>>
       /\ unpack(b_fmt.fmt, FrameOf(b_res.data, 40 + j, 2 * b_fmt.sbs))
            = <<b_fmt.maxv, b_fmt.maxv>>

\* C7: get_data_for_bits raises ValueError and returns nothing when rate is
\* not a multiple of bitrate and when the pattern is longer than bitrate; a
\* pattern as long as bitrate, with rate a multiple of bitrate, is accepted.
C7_BitPatternRejected ==
  b_pc = "done"
  => /\ (b_rate % b_bitrate # 0 \/ Len(b_bits) > b_bitrate)
          => (b_res.exc.type = "ValueError" /\ b_res.data = <<>>)
     /\ (b_rate % b_bitrate = 0 /\ Len(b_bits) = b_bitrate)
          => (b_res.exc = NoExc /\ b_res.data # <<>>)

C7_Witness ==
  /\ b_pc = "done" /\ Len(b_bits) = b_bitrate /\ b_rate % b_bitrate = 0
  /\ b_rate > b_bitrate /\ b_res.exc = NoExc

\* C8: without -f the format is S32_LE for the device "dmix" and for the
\* devices that begin with "dmix:" and S16_LE for every other device; with
\* -f the format is the one given, whatever the device.
C8_FormatInference ==
  pc = "select_format"
  => /\ device = AskedDevice
     /\ format = IF HasOption(S_f) THEN ArgOf(S_f)
                 ELSE IF IsDmix(AskedDevice) THEN S_S32_LE ELSE S_S16_LE

C8_Witness ==
  /\ pc = "select_format" /\ ~HasOption(S_f) /\ device = S_dmixer
  /\ format = S_S16_LE

\* C9: the tunes "square" and "bits:01" give the buffer that
\* get_data_for_bits returns for bitrate BITRATE and pattern "01", and the
\* command line of aplay names the device, the format and the rate only.
C9_SquareIsBits01 ==
  tune \in {S_square, S_bitsc \o S_01}
  => /\ pc = "assert" => data = get_data_for_bits(rate, fmt, BITRATE, S_01).data
     /\ sink # "none" =>
          cmd = <<S_aplay, S_D, AskedDevice, S_f, format, S_c, S_2, S_r,
                  str(rate), S_q>>

C9_Witness ==
  /\ pc = "assert" /\ tune = S_bitsc \o S_01 /\ device = S_default
  /\ data = get_data_for_bits(rate, fmt, BITRATE, S_01).data /\ data # <<>>

\* C10: a command line with a bad tail (unknown flag, flag without value,
\* leftover argument), an unknown format or a tune that cannot be generated
\* (unknown, empty pattern, pattern longer than the bitrate) never gets aplay
\* spawned and ends with status 1; aplay is spawned, and written to, only
\* with a generated buffer of rate * 2 * sbs bytes.
C10_FailBeforeSpawn ==
  /\ BadInput => /\ sink = "none" /\ stdin = "none" /\ written = 0
                 /\ pc = "exited" => status = 1
  /\ (sink # "none" \/ written > 0)
       => (data # <<>> /\ Len(data) = rate * 2 * fmt.sbs)

C10_Witness ==
  /\ pc = "exited" /\ status = 1 /\ sink = "none" /\ intr_at = <<>>
  /\ exc.what = "Too many bits of data"

====
